---- MODULE Spec2Model ----
(***************************************************************************)
(* Model of qgis_geonode's network fetch layer                             *)
(* (src/qgis_geonode/apiclient/base.py): the blocking event-loop adapter   *)
(* wait_for_signal, the event-driven task MyNetworkFetcherTask and the     *)
(* client facade BaseGeonodeClient.                                        *)
(*                                                                         *)
(* A task's run() executes on a worker of the task manager while the       *)
(* shared network access manager delivers its finished signal from the     *)
(* thread that constructed the task, so a delivery (_request_done) may     *)
(* fall between any two statements of run().  run() is therefore split     *)
(* wherever a delivery in between can be told from one before or after:    *)
(* after get()/post() returned, after _reply is stored, in the nested      *)
(* loop, after the loop, after the try block.  _request_done is one step.  *)
(*                                                                         *)
(* Specifications:                                                         *)
(*   Spec           tasks of get_layer_style, run() statement by statement *)
(*                  against the deliveries of the shared layer             *)
(*   SpecAdapter    wait_for_signal with any caller                        *)
(*   SpecFacade     the five get_X of the facade, each in its three        *)
(*                  statements, with run() in two steps (request, resolve) *)
(*   SpecTasks      MyNetworkFetcherTask constructed by any caller with    *)
(*                  any payload, authcfg and redirect policy               *)
(*   SpecFetcher    NetworkFetcherTask, the blocking variant               *)
(*   SpecPagination handle_pagination of the search widget                 *)
(*                  (src/qgis_geonode/gui/geonode_source_select_provider)  *)
(***************************************************************************)
EXTENDS Integers, Sequences, FiniteSets, TLC

\* ------------------------------------------------------------------ bounds
NumTasks == 2
MaxEmits == 3
MaxCalls == 3
MaxPage == 4
MaxTotal == 25
MaxPageSize == 10
MaxResults == 3

\* ------------------------------------------------- optional values (None)
None == <<>>
Some(x) == <<x>>
IsNone(x) == x = <<>>
Val(x) == x[1]

Tasks == 1..NumTasks

\* Request ids of the shared layer.  The layer gives every request an id of
\* its own and the program only compares ids for equality: the request of
\* task t has id t, a request of any other user has an id no task's has.
RequestIdOf(t) == t
OtherRequestId == NumTasks + 1

\* --------------------------------------------------------- reply payloads
SldNamedLayer == "<StyledLayerDescriptor><NamedLayer/></StyledLayerDescriptor>"
SldNoNamedLayer == "<StyledLayerDescriptor><UserLayer/></StyledLayerDescriptor>"
NotXml == "<html>"
EmptyBody == ""
Bodies == {SldNamedLayer, SldNoNamedLayer, NotXml, EmptyBody}

\* The outcomes of a request on the shared network layer: success with a
\* body, an HTTP-level failure, a transport-level failure.
ReplyOutcomes ==
    {[kind |-> "success", status |-> Some(200), reason |-> Some("OK"),
      error |-> "NoError", body |-> b] : b \in {SldNamedLayer, SldNoNamedLayer}}
    \cup {[kind |-> "http_error", status |-> Some(404), reason |-> Some("Not Found"),
           error |-> "NoError", body |-> NotXml]}
    \cup {[kind |-> "transport_error", status |-> None, reason |-> None,
           error |-> "ConnectionRefusedError", body |-> EmptyBody]}

\* A completed reply as the shared layer broadcasts it (QgsNetworkReplyContent).
ReplyContent(r, o) ==
    [requestId |-> r, kind |-> o.kind, status |-> o.status, reason |-> o.reason,
     error |-> o.error, body |-> o.body]

\* The reply handle get()/post() return (QNetworkReply with its requestId property).
ReplyHandle(r) == [requestId |-> r]

VARIABLES
    pc,                   \* position of each task in its life / in run()
    reply_content,        \* MyNetworkFetcherTask.reply_content
    parsed_reply,         \* MyNetworkFetcherTask.parsed_reply
    _reply,               \* MyNetworkFetcherTask._reply
    issued,               \* the handle get()/post() returned to run()
    result,               \* the local `result` of run(), its return value
    loop,                 \* the QEventLoop of wait_for_signal in each run()
    timedOut,             \* the single-shot timer of wait_for_signal fired
    evts,                 \* signals each task emitted, in order
    connected,            \* tasks whose _request_done is connected to finished
    inflight,             \* requests issued and not yet finished
    taskCount,            \* tasks constructed so far
    network_fetcher_task, \* BaseGeonodeClient.network_fetcher_task
    hstate,               \* the handler bound to each task's request_finished
    facade_evts,          \* facade signals emitted by each task's handler
    handler_exc,          \* exception that left each task's handler
    accepted_kind,        \* observer: kind of the reply each task accepted
    last_delivery,        \* observer: id of the reply the last step delivered
    wpc,                  \* a caller of wait_for_signal: its position
    wloop,                \* the QEventLoop of that call
    wemitted,             \* emissions of the awaited signal since the call
                          \* subscribed, each "direct" or "queued"
    wtimed,               \* the call's timer fired
    wcalls,               \* calls of wait_for_signal completed
    auth_config,          \* BaseGeonodeClient.auth_config
    call,                 \* the task of the get_X call in progress, if any
    op,                   \* who constructed each task: a get_X, or "direct"
    authcfg,              \* MyNetworkFetcherTask.authcfg
    request_payload,      \* MyNetworkFetcherTask.request_payload
    request,              \* MyNetworkFetcherTask.request: headers attached
                          \* since the task was constructed
    redirect_policy,      \* MyNetworkFetcherTask.redirect_policy
    nam_redirect_policy,  \* redirect policy of the shared network layer
    stage,                \* position of each task, run() taken in three steps
    handlers,             \* slots connected to each task's request_finished
    pending,              \* slot invocations queued by request_finished.emit()
    invoked,              \* slots invoked for each task, in order
    nam_calls,            \* calls each run() made on the auth subsystem and
                          \* on the shared network layer, in order
    bCount,               \* NetworkFetcherTask instances constructed so far
    b_stage,              \* position of each NetworkFetcherTask
    b_authcfg,            \* NetworkFetcherTask.authcfg
    b_request_payload,    \* NetworkFetcherTask.request_payload
    b_request,            \* NetworkFetcherTask.request: headers set since the
                          \* task was constructed
    b_reply_content,      \* NetworkFetcherTask.reply_content
    b_http_status_code,   \* NetworkFetcherTask.http_status_code
    b_http_status_reason, \* NetworkFetcherTask.http_status_reason
    b_qt_error,           \* NetworkFetcherTask.qt_error
    b_result,             \* the value run() returned
    b_handler_calls,      \* arguments of the calls of reply_handler
    b_log,                \* whether finished() logged the failure
    current_page,         \* GeonodeDataSourceWidget.current_page
    previous_btn,         \* previous_btn.isEnabled()
    next_btn,             \* next_btn.isEnabled()
    resultsLabel,         \* text of resultsLabel
    layer_list_payload,   \* the payload layer_list_received carries to the
                          \* widget, if any
    search_btn,           \* search_btn.isEnabled()
    slot_queue,           \* slots of the widget that the signal being emitted
                          \* by the client still has to call, in order
    search_page,          \* the page of the get_layers call in flight, if any
    search_outcome,       \* how the task of the last search resolved
    displayed_page        \* observer: the page of the result last handed to
                          \* handle_layer_list

taskVars == <<pc, reply_content, parsed_reply, _reply, issued, result, loop,
              timedOut, evts>>
namVars == <<connected, inflight>>
facadeVars == <<taskCount, network_fetcher_task, hstate, facade_evts, handler_exc>>
obsVars == <<accepted_kind, last_delivery>>
adapterVars == <<wpc, wloop, wemitted, wtimed, wcalls>>
progVars == <<taskVars, namVars, facadeVars, obsVars>>
descriptorVars == <<auth_config, call, op, authcfg, request_payload, request,
                    redirect_policy, nam_redirect_policy, stage, handlers,
                    pending, invoked, nam_calls>>
variantBVars == <<bCount, b_stage, b_authcfg, b_request_payload, b_request,
                  b_reply_content, b_http_status_code, b_http_status_reason,
                  b_qt_error, b_result, b_handler_calls, b_log>>
widgetVars == <<current_page, previous_btn, next_btn, resultsLabel,
               layer_list_payload, search_btn, slot_queue, search_page,
               search_outcome, displayed_page>>
\* what the steps of the statement-level model of run() leave alone
otherVars == <<adapterVars, descriptorVars, variantBVars, widgetVars>>
\* what the three-step model of run() does not use
fineVars == <<pc, issued, loop, timedOut, inflight, hstate, facade_evts,
              handler_exc, obsVars>>
vars == <<progVars, adapterVars, descriptorVars, variantBVars, widgetVars>>

\* ------------------------------------------------------------ Reply Parser
\* parse_network_reply (utils): status code, reason and transport error of a
\* completed reply.
parse_network_reply(reply) ==
    CASE reply.kind = "transport_error" ->
            [http_status_code |-> None, http_status_reason |-> None,
             qt_error |-> Some(reply.error)]
      [] reply.kind = "http_error" ->
            [http_status_code |-> reply.status, http_status_reason |-> reply.reason,
             qt_error |-> None]
      [] OTHER ->
            [http_status_code |-> reply.status, http_status_reason |-> reply.reason,
             qt_error |-> None]

\* -------------------------------------------- Blocking event-loop adapter
\* QEventLoop states of wait_for_signal: "idle" (constructed, exec_ not yet
\* called), "quit_posted" (a queued call of quit waits in the loop's thread),
\* "running" (inside exec_), "exited".

\* loop.quit as the slot of the awaited signal.  A queued call (the signal is
\* emitted from another thread) is posted and runs once the loop processes
\* events; a direct call on a loop that is not running does nothing, exec_
\* clears the exit flag when it starts.
LoopQuit(state, queued) ==
    CASE state = "running" -> "exited"
      [] state = "idle" /\ queued -> "quit_posted"
      [] OTHER -> state

\* loop.exec_(): runs until quit; a quit already posted is processed at once.
LoopExec(state) ==
    IF state = "quit_posted" THEN "exited" ELSE "running"

\* QTimer.singleShot(timeout, loop.quit) firing.
LoopTimeout(state) ==
    IF state = "running" THEN "exited" ELSE state

\* ------------------------------------------------------ MyNetworkFetcherTask
\* Faulty variant: every delivery is taken for the task's own.
reply_matches_any(qgis_reply, qt_reply) == TRUE

reply_matches(qgis_reply, qt_reply) ==
    qgis_reply.requestId = qt_reply.requestId

\* QNetworkReply.readAll() on the handle qt_reply at the moment qgis_reply is
\* delivered: the body of the reply when the handle is that reply's, nothing
\* of a reply that has not finished.
ReadAll(qt_reply, qgis_reply) ==
    IF qt_reply.requestId = qgis_reply.requestId THEN qgis_reply.body
    ELSE EmptyBody

\* Faulty variant: a task that holds no reply takes any delivery for its own.
RequestDoneUnguarded(t, qgis_reply) ==
    IF IsNone(_reply[t]) \/ reply_matches(qgis_reply, Val(_reply[t]))
    THEN [reply_content |-> Some(qgis_reply.body),
          parsed_reply |-> Some(parse_network_reply(qgis_reply)),
          emit |-> TRUE]
    ELSE [reply_content |-> reply_content[t], parsed_reply |-> parsed_reply[t],
          emit |-> FALSE]

\* _request_done: the fields of task t after the delivery of qgis_reply, and
\* whether request_parsed is emitted.
RequestDone(t, qgis_reply) ==
    IF IsNone(_reply[t])
    THEN [reply_content |-> reply_content[t], parsed_reply |-> parsed_reply[t],
          emit |-> FALSE]
    ELSE IF reply_matches(qgis_reply, Val(_reply[t]))
    THEN [reply_content |-> Some(ReadAll(Val(_reply[t]), qgis_reply)),
          parsed_reply |-> Some(parse_network_reply(qgis_reply)),
          emit |-> TRUE]
    ELSE [reply_content |-> reply_content[t], parsed_reply |-> parsed_reply[t],
          emit |-> FALSE]

\* Faulty variant: success means only that a reply was parsed.
RunResultIgnoringError(pr, rep) == ~IsNone(pr)

\* The try block of run(): AttributeError when parsed_reply is None (or when
\* _reply is None) gives False and leaves _reply alone.
RunResult(pr, rep) ==
    IF IsNone(pr) THEN FALSE
    ELSE IF IsNone(rep) THEN FALSE
    ELSE IsNone(Val(pr).qt_error)

\* Faulty variant: the reply handle is never released.
RunReplyKept(pr, rep) == rep

\* The try block of run(): _reply after it.
RunReplyAfter(pr, rep) ==
    IF IsNone(pr) THEN rep ELSE None

\* Faulty variant: the slot stays connected.
DisconnectNothing(conn, t) == conn

\* Faulty variant: run returns without emitting.
EmitNothing(emitted) == emitted

\* finished.disconnect(self._request_done), line 121.
Disconnect(conn, t) == conn \ {t}

\* request_finished.emit(), line 122.
EmitFinished(emitted) == Append(emitted, "request_finished")

\* ---------------------------------------------------------- BaseGeonodeClient
\* QDomDocument.setContent(raw_sld, True): whether the bytes load as XML.
SetContent(raw_sld) ==
    raw_sld \in {SldNamedLayer, SldNoNamedLayer}

\* documentElement().isNull() of a loaded document.
RootIsNull(raw_sld) == ~SetContent(raw_sld)

\* firstChildElement("NamedLayer").isNull()
NamedLayerIsNull(raw_sld) == raw_sld # SldNamedLayer

\* deserialize_sld_style: the exception it raises, None when it returns.
deserialize_sld_style(raw_sld) ==
    IF IsNone(raw_sld) THEN Some("TypeError")
    ELSE IF ~SetContent(Val(raw_sld)) THEN Some("RuntimeError")
    ELSE None

\* Faulty variant: the NamedLayer child is not looked for.
handle_layer_style_detail_unchecked(content) ==
    IF ~IsNone(deserialize_sld_style(content))
    THEN [signals |-> <<>>, exc |-> deserialize_sld_style(content)]
    ELSE [signals |-> <<"style_detail_received">>, exc |-> None]

\* handle_layer_style_detail: the facade signals it emits and the exception
\* that leaves it, given the reply_content of network_fetcher_task.
handle_layer_style_detail(content) ==
    IF ~IsNone(deserialize_sld_style(content))
    THEN [signals |-> <<>>, exc |-> deserialize_sld_style(content)]
    ELSE IF RootIsNull(Val(content))
    THEN [signals |-> <<>>, exc |-> Some("RuntimeError")]
    ELSE IF NamedLayerIsNull(Val(content))
    THEN [signals |-> <<>>, exc |-> Some("RuntimeError")]
    ELSE [signals |-> <<"style_detail_received">>, exc |-> None]

\* ------------------------------------------------------- Request Descriptor
\* The redirect_policy parameter's default (lines 68-70) and another policy.
NoLessSafeRedirectPolicy == "NoLessSafeRedirectPolicy"
ManualRedirectPolicy == "ManualRedirectPolicy"
RedirectPolicies == {NoLessSafeRedirectPolicy, ManualRedirectPolicy}

\* request_payload values: None, or a str given as its code points ("q=" and
\* U+00E9).
Payloads == {None, Some(<<113, 61, 233>>)}

\* Identifiers the auth subsystem holds a configuration for.
AuthConfigIds == {"cfg1"}

\* authcfg values a caller passes: None, the empty string, a configuration id.
AuthCfgs == {None, Some("")} \cup {Some(c) : c \in AuthConfigIds}

\* BaseGeonodeClient.__init__, line 227: auth_config or "".
ClientAuthConfig(a) == IF IsNone(a) \/ a = Some("") THEN "" ELSE Val(a)

\* str.encode("utf-8") of one code point below U+0800.
Utf8Char(c) ==
    IF c < 128 THEN <<c>> ELSE <<192 + (c \div 64), 128 + (c % 64)>>

\* request_payload.encode("utf-8"), lines 113 and 205.
RECURSIVE Utf8(_)
Utf8(str) ==
    IF str = <<>> THEN <<>> ELSE Utf8Char(Head(str)) \o Utf8(Tail(str))

\* QgsAuthManager.updateNetworkRequest(request, authcfg): credentials are
\* attached to the request in place when authcfg names a configuration.
updateNetworkRequest(req, cfg) ==
    IF cfg \in AuthConfigIds THEN req \cup {"Authorization"} ELSE req

\* Faulty variant: every request is sent with get().
RunMethodAlwaysGet(payload) == "get"

\* run(), lines 108-114: get() when there is no payload, post() otherwise.
RunMethod(payload) == IF IsNone(payload) THEN "get" ELSE "post"

\* The body handed to post(), line 113; get() has none.
RunBody(payload) == IF IsNone(payload) THEN <<>> ELSE Utf8(Val(payload))

\* A call run() makes on the auth subsystem or on the shared layer, with the
\* request's headers and the shared redirect policy at the time of the call.
NamCall(name, cfg, body, req) ==
    [call |-> name, cfg |-> cfg, body |-> body, headers |-> req,
     policy |-> nam_redirect_policy]

\* run(), lines 104-106: the calls made before the request is issued.
RunAuthCalls(t) ==
    IF IsNone(authcfg[t]) THEN <<>>
    ELSE <<NamCall("updateNetworkRequest", Val(authcfg[t]), <<>>, request[t])>>

\* run(), lines 104-106: the request after them.
RunAuthRequest(t) ==
    IF IsNone(authcfg[t]) THEN request[t]
    ELSE updateNetworkRequest(request[t], Val(authcfg[t]))

\* Faulty variant: the policy of the first task stays.
SetRedirectPolicyKeep(current, policy) == current

\* network_access_manager.setRedirectPolicy(self.redirect_policy), line 99.
SetRedirectPolicy(current, policy) == policy

\* Faulty variant: the handler is connected twice.
ConnectSlotTwice(slots, h) == slots \o <<h, h>>

\* request_finished.connect(handler), lines 326, 341, 351, 365, 379.
ConnectSlot(slots, h) == Append(slots, h)

\* The public operations of the facade and the handler each binds.
GetOperations ==
    {"get_layers", "get_layer_detail", "get_layer_styles", "get_layer_style",
     "get_maps"}

HandlerOf(o) ==
    CASE o = "get_layers" -> "handle_layer_list"
      [] o = "get_layer_detail" -> "handle_layer_detail"
      [] o = "get_layer_styles" -> "handle_layer_style_list"
      [] o = "get_layer_style" -> "handle_layer_style_detail"
      [] o = "get_maps" -> "handle_map_list"

\* What ends the wait of a run(): no reply within the timeout, or the task's
\* own reply, successful or failed in transport.
WaitOutcomes ==
    {None} \cup {Some(o) : o \in {r \in ReplyOutcomes :
                    r.kind = "transport_error" \/ r.body = SldNamedLayer}}


\* -------------------------------------------------------- NetworkFetcherTask
\* Faulty variant: the handler is called whatever run returned.
FinishedHandlerCallsAlways(res, content) == <<content>>

\* finished(result), lines 184-185: the calls of reply_handler.
FinishedHandlerCalls(res, content) == IF res THEN <<content>> ELSE <<>>

\* run(), line 181.
BRunResult(qt_error) == IsNone(qt_error)

\* _perform_get_request / _perform_post_request: the request after the call;
\* the POST sets the content type header on self.request (lines 199-202).
PerformRequest(req, payload) ==
    IF IsNone(payload) THEN req ELSE req \cup {"Content-Type"}

\* ---------------------------------------------------- GeonodeDataSourceWidget
\* Faulty variant: integer division.
FloorDiv(a, b) == a \div b

\* math.ceil(total_results / page_size), line 196, of a total that is not
\* negative and a positive page size: the quotient of two small integers is
\* rounded correctly, so the ceiling of the float is that of the fraction.
CeilDiv(a, b) == IF a % b = 0 THEN a \div b ELSE (a \div b) + 1

\* dict.get(key, default), lines 193-195, of a key that may be missing.
DictGet(v, default) == IF IsNone(v) THEN default ELSE Val(v)

\* The layer-list payloads: page, total and page_size, each possibly missing.
LayerListPayloads ==
    [page : {None} \cup {Some(n) : n \in 1..MaxPage},
     total : {None} \cup {Some(n) : n \in 0..MaxTotal},
     page_size : {None} \cup {Some(n) : n \in 1..MaxPageSize}]

\* How the task of a search resolves.
SearchFailures == {"http_error", "transport_error", "timeout"}

\* The answer of the server to get_layers(page): the page asked for, with a
\* total and a positive page size.
SearchPayload(page, total, page_size) ==
    [page |-> Some(page), total |-> Some(total), page_size |-> Some(page_size)]

\* --------------------------------------------------------------------- Init
InitFields ==
    /\ pc = [t \in Tasks |-> "none"]
    /\ reply_content = [t \in Tasks |-> None]
    /\ parsed_reply = [t \in Tasks |-> None]
    /\ _reply = [t \in Tasks |-> None]
    /\ issued = [t \in Tasks |-> None]
    /\ result = [t \in Tasks |-> None]
    /\ loop = [t \in Tasks |-> "none"]
    /\ timedOut = [t \in Tasks |-> FALSE]
    /\ evts = [t \in Tasks |-> <<>>]
    /\ connected = {}
    /\ inflight = {}
    /\ taskCount = 0
    /\ network_fetcher_task = None
    /\ hstate = [t \in Tasks |-> "unbound"]
    /\ facade_evts = [t \in Tasks |-> <<>>]
    /\ handler_exc = [t \in Tasks |-> None]
    /\ accepted_kind = [t \in Tasks |-> None]
    /\ last_delivery = None
    /\ wpc = "idle"
    /\ wloop = "none"
    /\ wemitted = <<>>
    /\ wtimed = FALSE
    /\ wcalls = 0
    /\ call = None
    /\ op = [t \in Tasks |-> "none"]
    /\ authcfg = [t \in Tasks |-> None]
    /\ request_payload = [t \in Tasks |-> None]
    /\ request = [t \in Tasks |-> {}]
    /\ redirect_policy = [t \in Tasks |-> NoLessSafeRedirectPolicy]
    /\ nam_redirect_policy = ManualRedirectPolicy
    /\ stage = [t \in Tasks |-> "none"]
    /\ handlers = [t \in Tasks |-> <<>>]
    /\ pending = [t \in Tasks |-> <<>>]
    /\ invoked = [t \in Tasks |-> <<>>]
    /\ nam_calls = [t \in Tasks |-> <<>>]
    /\ bCount = 0
    /\ b_stage = [t \in Tasks |-> "none"]
    /\ b_authcfg = [t \in Tasks |-> None]
    /\ b_request_payload = [t \in Tasks |-> None]
    /\ b_request = [t \in Tasks |-> {}]
    /\ b_reply_content = [t \in Tasks |-> None]
    /\ b_http_status_code = [t \in Tasks |-> None]
    /\ b_http_status_reason = [t \in Tasks |-> None]
    /\ b_qt_error = [t \in Tasks |-> None]
    /\ b_result = [t \in Tasks |-> None]
    /\ b_handler_calls = [t \in Tasks |-> <<>>]
    /\ b_log = [t \in Tasks |-> FALSE]
    /\ current_page = 1
    /\ previous_btn = FALSE
    /\ next_btn = FALSE
    /\ resultsLabel = [text |-> "", page |-> 0, total_pages |-> 0, total |-> 0]
    /\ search_btn = TRUE
    /\ search_page = None
    /\ search_outcome = ""
    /\ displayed_page = None

\* The client constructed without auth_config (the parameter's default).
Init ==
    /\ InitFields
    /\ auth_config = ClientAuthConfig(None)
    /\ layer_list_payload = None
    /\ slot_queue = <<>>

\* The client constructed with any auth_config.
InitFacade ==
    /\ InitFields
    /\ auth_config \in {ClientAuthConfig(a) : a \in AuthCfgs}
    /\ layer_list_payload = None
    /\ slot_queue = <<>>

\* The widget constructed (lines 89-94), with a layer-list payload on its way.
InitPagination ==
    /\ InitFields
    /\ auth_config = ClientAuthConfig(None)
    /\ layer_list_payload \in {Some(payload) : payload \in LayerListPayloads}
    /\ slot_queue = <<"handle_pagination">>

\* ------------------------------------------------------------------ actions
\* BaseGeonodeClient.get_layer_style: construct the task (__init__), bind
\* handle_layer_style_detail to request_finished, hand it to the task manager.
get_layer_style ==
    /\ taskCount < NumTasks
    /\ LET t == taskCount + 1 IN
        /\ taskCount' = t
        /\ reply_content' = [reply_content EXCEPT ![t] = None]
        /\ parsed_reply' = [parsed_reply EXCEPT ![t] = None]
        /\ connected' = connected \cup {t}
        /\ _reply' = [_reply EXCEPT ![t] = None]
        /\ network_fetcher_task' = Some(t)
        /\ hstate' = [hstate EXCEPT ![t] = "bound"]
        /\ pc' = [pc EXCEPT ![t] = "created"]
    /\ last_delivery' = None
    /\ UNCHANGED otherVars
    /\ UNCHANGED <<accepted_kind, issued, result, loop, timedOut, evts, inflight,
                   facade_evts, handler_exc>>

\* run(), lines 104-108 with wait_for_signal lines 33-34, and the right-hand
\* side of line 109/111: the request is augmented with credentials, the event
\* loop is created and its quit connected to request_parsed, and get()/post()
\* is called on the shared layer, which assigns the request its id.
RunIssue(t) ==
    /\ pc[t] = "created"
    /\ pc' = [pc EXCEPT ![t] = "issued"]
    /\ loop' = [loop EXCEPT ![t] = "idle"]
    /\ issued' = [issued EXCEPT ![t] = Some(ReplyHandle(RequestIdOf(t)))]
    /\ inflight' = inflight \cup {RequestIdOf(t)}
    /\ last_delivery' = None
    /\ UNCHANGED otherVars
    /\ UNCHANGED <<accepted_kind, reply_content, parsed_reply, _reply, result, timedOut,
                   evts, connected, facadeVars>>

\* run(), the assignment of line 109/111: self._reply = <the handle>.
RunStore(t) ==
    /\ pc[t] = "issued"
    /\ pc' = [pc EXCEPT ![t] = "stored"]
    /\ _reply' = [_reply EXCEPT ![t] = issued[t]]
    /\ last_delivery' = None
    /\ UNCHANGED otherVars
    /\ UNCHANGED <<accepted_kind, reply_content, parsed_reply, issued, result, loop, timedOut,
                   evts, namVars, facadeVars>>

\* wait_for_signal lines 36-38: the timer is armed and the loop is exec_'ed.
RunExec(t) ==
    /\ pc[t] = "stored"
    /\ loop' = [loop EXCEPT ![t] = LoopExec(loop[t])]
    /\ pc' = [pc EXCEPT ![t] = IF loop'[t] = "exited" THEN "resumed" ELSE "waiting"]
    /\ last_delivery' = None
    /\ UNCHANGED otherVars
    /\ UNCHANGED <<accepted_kind, reply_content, parsed_reply, _reply, issued, result, timedOut,
                   evts, namVars, facadeVars>>

\* The single-shot timer of wait_for_signal fires while the loop runs.
Timeout(t) ==
    /\ pc[t] = "waiting"
    /\ loop' = [loop EXCEPT ![t] = LoopTimeout(loop[t])]
    /\ timedOut' = [timedOut EXCEPT ![t] = TRUE]
    /\ pc' = [pc EXCEPT ![t] = IF loop'[t] = "exited" THEN "resumed" ELSE "waiting"]
    /\ last_delivery' = None
    /\ UNCHANGED otherVars
    /\ UNCHANGED <<accepted_kind, reply_content, parsed_reply, _reply, issued, result, evts,
                   namVars, facadeVars>>

\* run(), lines 115-120.
RunTry(t) ==
    /\ pc[t] = "resumed"
    /\ pc' = [pc EXCEPT ![t] = "tried"]
    /\ result' = [result EXCEPT ![t] = Some(RunResult(parsed_reply[t], _reply[t]))]
    /\ _reply' = [_reply EXCEPT ![t] = RunReplyAfter(parsed_reply[t], _reply[t])]
    /\ last_delivery' = None
    /\ UNCHANGED otherVars
    /\ UNCHANGED <<accepted_kind, reply_content, parsed_reply, issued, loop, timedOut, evts,
                   namVars, facadeVars>>

\* run(), lines 121-123: _request_done is disconnected from the shared
\* layer, request_finished is emitted (the bound handler is queued) and run
\* returns result.
RunFinish(t) ==
    /\ pc[t] = "tried"
    /\ pc' = [pc EXCEPT ![t] = "done"]
    /\ connected' = Disconnect(connected, t)
    /\ evts' = [evts EXCEPT ![t] = EmitFinished(@)]
    /\ hstate' = [hstate EXCEPT ![t] = IF @ = "bound" THEN "queued" ELSE @]
    /\ last_delivery' = None
    /\ UNCHANGED otherVars
    /\ UNCHANGED <<accepted_kind, reply_content, parsed_reply, _reply, issued, result, loop,
                   timedOut, inflight, taskCount,
                   network_fetcher_task, facade_evts, handler_exc>>

\* The finished signal of the shared layer fans out: _request_done of every
\* connected task runs with the completed reply.
Deliver(qgis_reply) ==
    LET rd(t) == RequestDone(t, qgis_reply)
        hit(t) == t \in connected /\ rd(t).emit
    IN
    /\ reply_content' = [t \in Tasks |->
            IF t \in connected THEN rd(t).reply_content ELSE reply_content[t]]
    /\ parsed_reply' = [t \in Tasks |->
            IF t \in connected THEN rd(t).parsed_reply ELSE parsed_reply[t]]
    /\ evts' = [t \in Tasks |->
            IF hit(t) THEN Append(evts[t], "request_parsed") ELSE evts[t]]
    /\ loop' = [t \in Tasks |->
            IF hit(t) THEN LoopQuit(loop[t], TRUE) ELSE loop[t]]
    /\ pc' = [t \in Tasks |->
            IF hit(t) /\ pc[t] = "waiting" /\ loop'[t] = "exited"
            THEN "resumed" ELSE pc[t]]
    /\ accepted_kind' = [t \in Tasks |->
            IF hit(t) THEN Some(qgis_reply.kind) ELSE accepted_kind[t]]
    /\ last_delivery' = Some(qgis_reply.requestId)

\* The shared layer finishes the request of task t with outcome o.
NamFinished(t, o) ==
    /\ RequestIdOf(t) \in inflight
    /\ inflight' = inflight \ {RequestIdOf(t)}
    /\ Deliver(ReplyContent(RequestIdOf(t), o))
    /\ UNCHANGED otherVars
    /\ UNCHANGED <<_reply, issued, result, timedOut, connected,
                   facadeVars>>

\* The shared layer finishes a request of another user (an authentication
\* handshake, another plugin) with outcome o.
OtherFinished(o) ==
    /\ Deliver(ReplyContent(OtherRequestId, o))
    /\ UNCHANGED otherVars
    /\ UNCHANGED <<_reply, issued, result, timedOut, connected, inflight,
                   facadeVars>>

\* The handler bound by get_layer_style runs: handle_layer_style_detail.
HandleLayerStyleDetail(t) ==
    /\ hstate[t] = "queued"
    /\ ~IsNone(network_fetcher_task)
    /\ LET out == handle_layer_style_detail(reply_content[Val(network_fetcher_task)]) IN
        /\ facade_evts' = [facade_evts EXCEPT ![t] = @ \o out.signals]
        /\ handler_exc' = [handler_exc EXCEPT ![t] = out.exc]
    /\ hstate' = [hstate EXCEPT ![t] = "handled"]
    /\ last_delivery' = None
    /\ UNCHANGED otherVars
    /\ UNCHANGED <<accepted_kind, taskVars, namVars, taskCount, network_fetcher_task>>

\* ------------------------------------------- wait_for_signal, any caller
\* wait_for_signal lines 33-35: the loop is created, its quit is connected to
\* the signal, and the body of the with block starts.
WaitEnter ==
    /\ wpc = "idle"
    /\ wcalls < MaxCalls
    /\ wpc' = "body"
    /\ wloop' = "idle"
    /\ wemitted' = <<>>
    /\ wtimed' = FALSE
    /\ UNCHANGED <<wcalls, progVars, descriptorVars, variantBVars, widgetVars>>

\* The awaited signal is emitted while the call is in the body or in the
\* loop: by the caller's own thread (the operation of the body, a slot the
\* nested loop runs), a direct call of loop.quit, or by another thread, a
\* queued one.
WaitSignal(queued) ==
    /\ wpc \in {"body", "exec"}
    /\ Len(wemitted) < MaxEmits
    /\ wemitted' = Append(wemitted, IF queued THEN "queued" ELSE "direct")
    /\ wloop' = LoopQuit(wloop, queued)
    /\ wpc' = IF wpc = "exec" /\ wloop' = "exited" THEN "returned" ELSE wpc
    /\ UNCHANGED <<wtimed, wcalls, progVars, descriptorVars, variantBVars, widgetVars>>

\* wait_for_signal lines 36-38: the body is over, the timer is armed and the
\* loop is exec_'ed.
WaitExec ==
    /\ wpc = "body"
    /\ wloop' = LoopExec(wloop)
    /\ wpc' = IF wloop' = "exited" THEN "returned" ELSE "exec"
    /\ UNCHANGED <<wemitted, wtimed, wcalls, progVars, descriptorVars, variantBVars, widgetVars>>

\* The timer fires while the loop runs.
WaitTimeout ==
    /\ wpc = "exec"
    /\ wloop' = LoopTimeout(wloop)
    /\ wtimed' = TRUE
    /\ wpc' = IF wloop' = "exited" THEN "returned" ELSE "exec"
    /\ UNCHANGED <<wemitted, wcalls, progVars, descriptorVars, variantBVars, widgetVars>>

\* wait_for_signal line 39: the caller's statements after the with block.
WaitReturn ==
    /\ wpc = "returned"
    /\ wpc' = "idle"
    /\ wcalls' = wcalls + 1
    /\ UNCHANGED <<wloop, wemitted, wtimed, progVars, descriptorVars, variantBVars, widgetVars>>

\* ---------------------------------- tasks and their callers, run() in steps
\* The fields of MyNetworkFetcherTask and of the facade that the steps below
\* assign; the statement-level steps of run() above assign them too.
resultVars == <<reply_content, parsed_reply, _reply, result, evts, connected,
                taskCount, network_fetcher_task>>

\* MyNetworkFetcherTask.__init__, lines 91-101, of the task t.
TaskInit(t, payload, cfg, policy) ==
    /\ taskCount' = t
    /\ authcfg' = [authcfg EXCEPT ![t] = cfg]
    /\ request' = [request EXCEPT ![t] = {}]
    /\ request_payload' = [request_payload EXCEPT ![t] = payload]
    /\ reply_content' = [reply_content EXCEPT ![t] = None]
    /\ parsed_reply' = [parsed_reply EXCEPT ![t] = None]
    /\ redirect_policy' = [redirect_policy EXCEPT ![t] = policy]
    /\ nam_redirect_policy' = SetRedirectPolicy(nam_redirect_policy, policy)
    /\ connected' = connected \cup {t}
    /\ _reply' = [_reply EXCEPT ![t] = None]

\* The first statement of a get_X (lines 321-325, 337-340, 348-350, 362-364,
\* 374-378): the task is constructed with the client's auth_config, the
\* payload of the base class's hooks (None) and the default redirect policy,
\* and stored in network_fetcher_task.
GetConstruct(o) ==
    /\ IsNone(call)
    /\ taskCount < NumTasks
    /\ LET t == taskCount + 1 IN
        /\ TaskInit(t, None, Some(auth_config), NoLessSafeRedirectPolicy)
        /\ network_fetcher_task' = Some(t)
        /\ op' = [op EXCEPT ![t] = o]
        /\ stage' = [stage EXCEPT ![t] = "constructed"]
        /\ call' = Some(t)
    /\ UNCHANGED <<auth_config, handlers, pending, invoked, nam_calls, result, evts>>
    /\ UNCHANGED <<fineVars, adapterVars, variantBVars, widgetVars>>

\* The second statement of a get_X (lines 326-328, 341, 351, 365-367, 379):
\* the operation's handler is connected to the task's request_finished.
GetConnect ==
    /\ ~IsNone(call)
    /\ LET t == Val(call) IN
        /\ stage[t] = "constructed"
        /\ handlers' = [handlers EXCEPT ![t] = ConnectSlot(@, HandlerOf(op[t]))]
        /\ stage' = [stage EXCEPT ![t] = "bound"]
    /\ UNCHANGED <<auth_config, call, op, authcfg, request_payload, request,
                   redirect_policy, nam_redirect_policy, pending, invoked, nam_calls>>
    /\ UNCHANGED <<resultVars, fineVars, adapterVars, variantBVars, widgetVars>>

\* A caller other than the facade constructs a task (lines 62-101).
NewTask(payload, cfg, policy) ==
    /\ IsNone(call)
    /\ taskCount < NumTasks
    /\ LET t == taskCount + 1 IN
        /\ TaskInit(t, payload, cfg, policy)
        /\ op' = [op EXCEPT ![t] = "direct"]
        /\ stage' = [stage EXCEPT ![t] = "constructed"]
    /\ UNCHANGED <<auth_config, call, handlers, pending, invoked, nam_calls, result,
                   evts, network_fetcher_task>>
    /\ UNCHANGED <<fineVars, adapterVars, variantBVars, widgetVars>>

\* QgsApplication.taskManager().addTask(task): the last statement of a get_X
\* (lines 329, 342, 352, 368, 380), or the caller that constructed the task.
addTask(t) ==
    /\ \/ call = Some(t) /\ stage[t] = "bound"
       \/ IsNone(call) /\ op[t] = "direct" /\ stage[t] = "constructed"
    /\ stage' = [stage EXCEPT ![t] = "scheduled"]
    /\ call' = None
    /\ UNCHANGED <<auth_config, op, authcfg, request_payload, request, redirect_policy,
                   nam_redirect_policy, handlers, pending, invoked, nam_calls>>
    /\ UNCHANGED <<resultVars, fineVars, adapterVars, variantBVars, widgetVars>>

\* run(), lines 104-114: the request is augmented when authcfg is not None,
\* then issued with get() or post(), and the handle is stored in _reply.
RunRequest(t) ==
    /\ stage[t] = "scheduled"
    /\ stage' = [stage EXCEPT ![t] = "requested"]
    /\ request' = [request EXCEPT ![t] = RunAuthRequest(t)]
    /\ nam_calls' = [nam_calls EXCEPT ![t] =
            @ \o RunAuthCalls(t)
              \o <<NamCall(RunMethod(request_payload[t]), "",
                           RunBody(request_payload[t]), RunAuthRequest(t))>>]
    /\ _reply' = [_reply EXCEPT ![t] = Some(ReplyHandle(RequestIdOf(t)))]
    /\ UNCHANGED <<auth_config, call, op, authcfg, request_payload, redirect_policy,
                   nam_redirect_policy, handlers, pending, invoked>>
    /\ UNCHANGED <<reply_content, parsed_reply, result, evts, connected, taskCount,
                   network_fetcher_task>>
    /\ UNCHANGED <<fineVars, adapterVars, variantBVars, widgetVars>>

\* run(), lines 36-38 and 115-123: the wait ends with w (the task's own reply
\* accepted by _request_done, or the timeout), the try block computes the
\* result, the slot is disconnected and request_finished is emitted, which
\* queues every connected slot once.
RunResolve(t, w) ==
    /\ stage[t] = "requested"
    /\ stage' = [stage EXCEPT ![t] = "done"]
    /\ LET rd == IF IsNone(w)
                 THEN [reply_content |-> reply_content[t],
                       parsed_reply |-> parsed_reply[t], emit |-> FALSE]
                 ELSE RequestDone(t, ReplyContent(RequestIdOf(t), Val(w)))
       IN
        /\ reply_content' = [reply_content EXCEPT ![t] = rd.reply_content]
        /\ parsed_reply' = [parsed_reply EXCEPT ![t] = rd.parsed_reply]
        /\ result' = [result EXCEPT ![t] = Some(RunResult(rd.parsed_reply, _reply[t]))]
        /\ _reply' = [_reply EXCEPT ![t] = RunReplyAfter(rd.parsed_reply, _reply[t])]
        /\ evts' = [evts EXCEPT ![t] =
                EmitFinished(IF rd.emit THEN Append(@, "request_parsed") ELSE @)]
    /\ connected' = Disconnect(connected, t)
    /\ pending' = [pending EXCEPT ![t] = @ \o handlers[t]]
    /\ UNCHANGED <<auth_config, call, op, authcfg, request_payload, request,
                   redirect_policy, nam_redirect_policy, handlers, invoked, nam_calls>>
    /\ UNCHANGED <<taskCount, network_fetcher_task>>
    /\ UNCHANGED <<fineVars, adapterVars, variantBVars, widgetVars>>

\* A slot queued by request_finished runs.
InvokeSlot(t) ==
    /\ pending[t] # <<>>
    /\ invoked' = [invoked EXCEPT ![t] = Append(@, Head(pending[t]))]
    /\ pending' = [pending EXCEPT ![t] = Tail(@)]
    /\ UNCHANGED <<auth_config, call, op, authcfg, request_payload, request,
                   redirect_policy, nam_redirect_policy, stage, handlers, nam_calls>>
    /\ UNCHANGED <<resultVars, fineVars, adapterVars, variantBVars, widgetVars>>

\* ------------------------------------------------- NetworkFetcherTask steps
\* NetworkFetcherTask.__init__, lines 159-167.
NewFetcher(payload, cfg) ==
    /\ bCount < NumTasks
    /\ LET t == bCount + 1 IN
        /\ bCount' = t
        /\ b_stage' = [b_stage EXCEPT ![t] = "created"]
        /\ b_authcfg' = [b_authcfg EXCEPT ![t] = cfg]
        /\ b_request' = [b_request EXCEPT ![t] = {}]
        /\ b_request_payload' = [b_request_payload EXCEPT ![t] = payload]
        /\ b_reply_content' = [b_reply_content EXCEPT ![t] = None]
        /\ b_http_status_code' = [b_http_status_code EXCEPT ![t] = None]
        /\ b_http_status_reason' = [b_http_status_reason EXCEPT ![t] = None]
        /\ b_qt_error' = [b_qt_error EXCEPT ![t] = None]
    /\ UNCHANGED <<b_result, b_handler_calls, b_log>>
    /\ UNCHANGED <<progVars, adapterVars, descriptorVars, widgetVars>>

\* NetworkFetcherTask.run, lines 169-181, the blocking request answered by o.
FetcherRun(t, o) ==
    /\ b_stage[t] = "created"
    /\ b_stage' = [b_stage EXCEPT ![t] = "ran"]
    /\ LET reply == ReplyContent(OtherRequestId, o)
           parsed == parse_network_reply(reply)
       IN
        /\ b_request' = [b_request EXCEPT ![t] = PerformRequest(@, b_request_payload[t])]
        /\ b_reply_content' = [b_reply_content EXCEPT ![t] = Some(reply.body)]
        /\ b_http_status_code' = [b_http_status_code EXCEPT ![t] = parsed.http_status_code]
        /\ b_http_status_reason' =
                [b_http_status_reason EXCEPT ![t] = parsed.http_status_reason]
        /\ b_qt_error' = [b_qt_error EXCEPT ![t] = parsed.qt_error]
        /\ b_result' = [b_result EXCEPT ![t] = Some(BRunResult(parsed.qt_error))]
    /\ UNCHANGED <<bCount, b_authcfg, b_request_payload, b_handler_calls, b_log>>
    /\ UNCHANGED <<progVars, adapterVars, descriptorVars, widgetVars>>

\* NetworkFetcherTask.finished(result), lines 183-191, called by the task
\* manager with the value run returned.
FetcherFinished(t) ==
    /\ b_stage[t] = "ran"
    /\ b_stage' = [b_stage EXCEPT ![t] = "finished"]
    /\ b_handler_calls' = [b_handler_calls EXCEPT ![t] =
            @ \o FinishedHandlerCalls(Val(b_result[t]), b_reply_content[t])]
    /\ b_log' = [b_log EXCEPT ![t] = ~Val(b_result[t])]
    /\ UNCHANGED <<bCount, b_authcfg, b_request_payload, b_request, b_reply_content,
                   b_http_status_code, b_http_status_reason, b_qt_error, b_result>>
    /\ UNCHANGED <<progVars, adapterVars, descriptorVars, widgetVars>>

\* --------------------------------------------------- GeonodeDataSourceWidget
\* handle_pagination, lines 192-208, called by layer_list_received with its
\* payload.
handle_pagination ==
    LET payload == Val(layer_list_payload)
        page == DictGet(payload.page, 1)
        total_results == DictGet(payload.total, 0)
        page_size == DictGet(payload.page_size, 10)
        total_pages == CeilDiv(total_results, page_size)
    IN
    /\ slot_queue # <<>>
    /\ Head(slot_queue) = "handle_pagination"
    /\ slot_queue' = Tail(slot_queue)
    /\ ~IsNone(layer_list_payload)
    /\ UNCHANGED <<layer_list_payload, search_btn, search_page, search_outcome,
                   displayed_page>>
    /\ current_page' = page
    /\ previous_btn' = (page > 1)
    /\ next_btn' = (page < total_pages)
    /\ resultsLabel' =
            IF total_results > 0
            THEN [text |-> "Showing page {} of {} ({} results)", page |-> page,
                  total_pages |-> total_pages, total |-> total_results]
            ELSE [text |-> "No results found", page |-> 0, total_pages |-> 0,
                  total |-> 0]
    /\ UNCHANGED <<progVars, adapterVars, descriptorVars, variantBVars>>

\* The body of search_geonode, lines 163-175, run with current_page = page:
\* the three buttons are disabled, a client is made, the three slots are
\* connected and get_layers(page=self.current_page) is called.
SearchGeonode(page) ==
    /\ search_btn' = FALSE
    /\ next_btn' = FALSE
    /\ previous_btn' = FALSE
    /\ search_page' = Some(page)
    /\ UNCHANGED <<resultsLabel, layer_list_payload, slot_queue, search_outcome,
                   displayed_page>>
    /\ UNCHANGED <<progVars, adapterVars, descriptorVars, variantBVars>>

\* search_geonode, lines 161-175, as the slot of search_btn.clicked (line
\* 90): a disabled button emits no click.
search_geonode ==
    /\ search_btn
    /\ slot_queue = <<>>
    /\ UNCHANGED current_page
    /\ SearchGeonode(current_page)

\* request_next_page, lines 153-155, the slot of next_btn.clicked (line 91).
request_next_page ==
    /\ next_btn
    /\ slot_queue = <<>>
    /\ current_page' = current_page + 1
    /\ SearchGeonode(current_page')

\* request_previous_page, lines 157-159, the slot of previous_btn.clicked
\* (line 92).
request_previous_page ==
    /\ previous_btn
    /\ slot_queue = <<>>
    /\ current_page' = (IF current_page - 1 > 1 THEN current_page - 1 ELSE 1)
    /\ SearchGeonode(current_page')

\* The client of the search widget (GeonodeClient of ..api_client): the task
\* of the search succeeded and the client emits layer_list_received with the
\* payload, which calls the slots connected at lines 171-172 in that order.
layer_list_received(total, page_size) ==
    /\ ~IsNone(search_page)
    /\ slot_queue = <<>>
    /\ layer_list_payload' =
            Some(SearchPayload(Val(search_page), total, page_size))
    /\ slot_queue' = <<"handle_layer_list", "handle_pagination">>
    /\ search_page' = None
    /\ search_outcome' = "success"
    /\ UNCHANGED <<current_page, previous_btn, next_btn, resultsLabel,
                   search_btn, displayed_page>>
    /\ UNCHANGED <<progVars, adapterVars, descriptorVars, variantBVars>>

\* The client of the search widget: the task of the search failed with
\* outcome o and the client emits error_received, which calls the slot
\* connected at line 174.
error_received(o) ==
    /\ ~IsNone(search_page)
    /\ slot_queue = <<>>
    /\ slot_queue' = <<"show_search_error">>
    /\ search_page' = None
    /\ search_outcome' = o
    /\ UNCHANGED <<current_page, previous_btn, next_btn, resultsLabel,
                   layer_list_payload, search_btn, displayed_page>>
    /\ UNCHANGED <<progVars, adapterVars, descriptorVars, variantBVars>>

\* The client of the search widget: the task of the search failed with
\* outcome o and the client emits neither event.
NoEventEmitted(o) ==
    /\ ~IsNone(search_page)
    /\ slot_queue = <<>>
    /\ search_page' = None
    /\ search_outcome' = o
    /\ UNCHANGED <<current_page, previous_btn, next_btn, resultsLabel,
                   layer_list_payload, search_btn, slot_queue, displayed_page>>
    /\ UNCHANGED <<progVars, adapterVars, descriptorVars, variantBVars>>

\* handle_layer_list, lines 185-190: the search button is enabled again and
\* the layers of the payload are shown.
handle_layer_list ==
    /\ slot_queue # <<>>
    /\ Head(slot_queue) = "handle_layer_list"
    /\ slot_queue' = Tail(slot_queue)
    /\ search_btn' = TRUE
    /\ displayed_page' = Val(layer_list_payload).page
    /\ UNCHANGED <<current_page, previous_btn, next_btn, resultsLabel,
                   layer_list_payload, search_page, search_outcome>>
    /\ UNCHANGED <<progVars, adapterVars, descriptorVars, variantBVars>>

\* show_search_error, lines 177-183: the search button is enabled again and
\* the error is shown in the message bar.
show_search_error ==
    /\ slot_queue # <<>>
    /\ Head(slot_queue) = "show_search_error"
    /\ slot_queue' = Tail(slot_queue)
    /\ search_btn' = TRUE
    /\ UNCHANGED <<current_page, previous_btn, next_btn, resultsLabel,
                   layer_list_payload, search_page, search_outcome,
                   displayed_page>>
    /\ UNCHANGED <<progVars, adapterVars, descriptorVars, variantBVars>>

Next ==
    \/ get_layer_style
    \/ \E t \in Tasks : RunIssue(t)
    \/ \E t \in Tasks : RunStore(t)
    \/ \E t \in Tasks : RunExec(t)
    \/ \E t \in Tasks : Timeout(t)
    \/ \E t \in Tasks : RunTry(t)
    \/ \E t \in Tasks : RunFinish(t)
    \/ \E t \in Tasks, o \in ReplyOutcomes : NamFinished(t, o)
    \/ \E o \in ReplyOutcomes : OtherFinished(o)
    \/ \E t \in Tasks : HandleLayerStyleDetail(t)

Spec == Init /\ [][Next]_vars

NextAdapter ==
    \/ WaitEnter
    \/ \E queued \in BOOLEAN : WaitSignal(queued)
    \/ WaitExec
    \/ WaitTimeout
    \/ WaitReturn

SpecAdapter == Init /\ [][NextAdapter]_vars

\* The facade's get_X operations and the tasks they submit.
NextFacade ==
    \/ \E o \in GetOperations : GetConstruct(o)
    \/ GetConnect
    \/ \E t \in Tasks : addTask(t)
    \/ \E t \in Tasks : RunRequest(t)
    \/ \E t \in Tasks, w \in WaitOutcomes : RunResolve(t, w)
    \/ \E t \in Tasks : InvokeSlot(t)

SpecFacade == InitFacade /\ [][NextFacade]_vars

\* Tasks constructed by any caller, with any descriptor.
NextTasks ==
    \/ \E payload \in Payloads, cfg \in AuthCfgs, policy \in RedirectPolicies :
            NewTask(payload, cfg, policy)
    \/ \E t \in Tasks : addTask(t)
    \/ \E t \in Tasks : RunRequest(t)
    \/ \E t \in Tasks, w \in WaitOutcomes : RunResolve(t, w)

SpecTasks == Init /\ [][NextTasks]_vars

\* NetworkFetcherTask instances, each constructed, run and finished.
NextFetcher ==
    \/ \E payload \in Payloads, cfg \in AuthCfgs : NewFetcher(payload, cfg)
    \/ \E t \in Tasks, o \in ReplyOutcomes : FetcherRun(t, o)
    \/ \E t \in Tasks : FetcherFinished(t)

SpecFetcher == Init /\ [][NextFetcher]_vars

\* The paging of the search widget over layer-list payloads.
NextPagination == handle_pagination

SpecPagination == InitPagination /\ [][NextPagination]_vars

\* The search of the widget: the clicks on its three buttons, the client's
\* answer to each search, and the slots the answer calls.
NextWidget ==
    \/ search_geonode
    \/ request_next_page
    \/ request_previous_page
    \/ \E total \in 0..MaxResults, page_size \in 1..MaxResults :
            layer_list_received(total, page_size)
    \/ \E o \in SearchFailures : error_received(o)
    \/ \E o \in SearchFailures : NoEventEmitted(o)
    \/ handle_layer_list
    \/ handle_pagination
    \/ show_search_error

SpecWidget == Init /\ [][NextWidget]_vars

\* ================================================================== claims
Parsed == "request_parsed"
Finished == "request_finished"
OwnDelivered(t) == RequestIdOf(t) \in inflight /\ RequestIdOf(t) \notin inflight'

\* C1: correlation-id isolation.  While task A waits, the delivery of a reply
\* whose requestId is not that of A's own reply (another task's, or a request
\* of another user) changes nothing of A: no request_parsed, the wait goes
\* on.  A's request_parsed is emitted only in the step that delivers A's own
\* reply, and A's wait ends only in that step or when the timer fires.
C1_CorrelationIsolation ==
    [][\A t \in Tasks : pc[t] = "waiting" =>
          /\ (evts'[t] # evts[t] => OwnDelivered(t))
          /\ (pc'[t] # "waiting" => OwnDelivered(t) \/ (~timedOut[t] /\ timedOut'[t]))
          /\ (last_delivery' # None /\ last_delivery' # Some(RequestIdOf(t)) =>
                /\ pc'[t] = pc[t]
                /\ evts'[t] = evts[t]
                /\ loop'[t] = loop[t]
                /\ parsed_reply'[t] = parsed_reply[t]
                /\ reply_content'[t] = reply_content[t])
    ]_vars

\* Task a still waits, nothing emitted, right after the reply of another
\* task b was delivered to it.
C1_Witness ==
    \E a, b \in Tasks :
        /\ a # b
        /\ pc[a] = "waiting"
        /\ a \in connected
        /\ ~IsNone(_reply[a])
        /\ evts[a] = <<>>
        /\ last_delivery = Some(RequestIdOf(b))
        /\ ~IsNone(parsed_reply[b])

\* C2: within one task no request_parsed is emitted after request_finished.
C2_ParsedBeforeFinished ==
    \A t \in Tasks : \A i, j \in DOMAIN evts[t] :
        (evts[t][i] = Finished /\ evts[t][j] = Parsed) => j < i

C2_Witness ==
    \E t \in Tasks : evts[t] = <<Parsed, Finished>>

\* C3 as claimed: a task whose run has executed has emitted request_parsed
\* once and then request_finished once, whatever the outcome.
C3_Original ==
    \A t \in Tasks : pc[t] = "done" => evts[t] = <<Parsed, Finished>>

\* C3 as amended: a task whose run has executed has emitted request_finished
\* exactly once, as the last event; request_parsed at most once and before
\* it, exactly when the task accepted a reply; a run that ended by timeout
\* with no reply accepted emitted request_finished alone.  Before run ends
\* request_finished has not been emitted.
C3_Amended ==
    \A t \in Tasks :
        /\ pc[t] = "done" =>
              /\ evts[t] \in {<<Finished>>, <<Parsed, Finished>>}
              /\ (evts[t] = <<Parsed, Finished>>) <=> ~IsNone(parsed_reply[t])
        /\ pc[t] # "done" => evts[t] \in {<<>>, <<Parsed>>}

C3_Witness ==
    \E t \in Tasks :
        /\ pc[t] = "done"
        /\ timedOut[t]
        /\ IsNone(parsed_reply[t])
        /\ evts[t] = <<Finished>>

\* C4: timeout fallback.  A task whose wait was ended by the timer (no
\* matching completion within the wait window) returns False from run, with
\* parsed_reply and reply_content still None and request_finished emitted.
C4_TimeoutFallback ==
    \A t \in Tasks : (pc[t] = "done" /\ timedOut[t]) =>
        /\ result[t] = Some(FALSE)
        /\ IsNone(parsed_reply[t])
        /\ IsNone(reply_content[t])
        /\ evts[t] = <<Finished>>

\* C5: the result of run is True exactly when the task accepted a matching
\* reply and that reply's qt_error is None.
C5_ResultIffAcceptedWithoutError ==
    \A t \in Tasks : pc[t] = "done" =>
        (result[t] = Some(TRUE)
            <=> (~IsNone(parsed_reply[t]) /\ IsNone(Val(parsed_reply[t]).qt_error)))

C7_NotFoundIsFailure ==
    \A t \in Tasks :
        (pc[t] = "done" /\ accepted_kind[t] = Some("http_error")) =>
            /\ result[t] = Some(FALSE)
            /\ Val(parsed_reply[t]).http_status_code = Some(404)
            /\ IsNone(Val(parsed_reply[t]).qt_error)

\* C8: terminal event at the facade.  Once the handler bound by
\* get_layer_style has run for a task, exactly one of style_detail_received
\* and error_received was emitted for it and no exception left the handler.
C8_TerminalEvent ==
    \A t \in Tasks : hstate[t] = "handled" =>
        /\ IsNone(handler_exc[t])
        /\ Len(facade_evts[t]) = 1
        /\ facade_evts[t][1] \in {"style_detail_received", "error_received"}

C10_ReturnsAtSignalOrTimeout ==
    /\ wpc = "exec" => wemitted = <<>>
    /\ wpc = "returned" => (wemitted # <<>> \/ wtimed)
    /\ wpc = "returned" => wloop = "exited"

\* C11: every get_X of the facade creates exactly one new task, stores it in
\* network_fetcher_task and lets no other task be created before the call
\* ends; a task handed to the scheduler has exactly one slot connected to its
\* request_finished, the handler of the operation that created it; and that
\* handler is invoked at most once for the task.
C11_SubmitBindSchedule ==
    /\ [](\A t \in Tasks :
            /\ stage[t] \in {"scheduled", "requested", "done"} =>
                    handlers[t] = <<HandlerOf(op[t])>>
            /\ Len(invoked[t]) <= 1
            /\ invoked[t] # <<>> => (stage[t] = "done" /\ invoked[t] = handlers[t]))
    /\ [][(IsNone(call) /\ ~IsNone(call')) =>
            /\ taskCount' = taskCount + 1
            /\ call' = Some(taskCount')
            /\ network_fetcher_task' = Some(taskCount')
            /\ stage[taskCount'] = "none"
            /\ \A u \in Tasks \ {taskCount'} : stage'[u] = stage[u]
         ]_vars
    /\ [][~IsNone(call) => taskCount' = taskCount]_vars

\* The handler of one operation has run once for its finished task while the
\* task of another operation is scheduled.
C11_Witness ==
    \E t, u \in Tasks :
        /\ op[t] # op[u]
        /\ stage[t] = "done"
        /\ invoked[t] = <<HandlerOf(op[t])>>
        /\ pending[t] = <<>>
        /\ stage[u] = "scheduled"
        /\ handlers[u] = <<HandlerOf(op[u])>>

\* C12: NetworkFetcherTask.  run returns True exactly when the qt_error of
\* the parsed reply is None; once finished(result) has run, reply_handler was
\* called exactly once, with the task's reply_content, when result is True,
\* and was not called but the failure logged when result is False; before
\* finished runs the handler is not called.
C12_BlockingVariant ==
    \A t \in Tasks :
        /\ b_stage[t] \in {"ran", "finished"} =>
                (b_result[t] = Some(TRUE) <=> IsNone(b_qt_error[t]))
        /\ b_stage[t] = "finished" =>
                IF b_result[t] = Some(TRUE)
                THEN b_handler_calls[t] = <<b_reply_content[t]>> /\ ~b_log[t]
                ELSE b_handler_calls[t] = <<>> /\ b_log[t]
        /\ b_stage[t] # "finished" => (b_handler_calls[t] = <<>> /\ ~b_log[t])

\* One task finished with a transport failure and no handler call, another
\* finished with success and one.
C12_Witness ==
    \E t, u \in Tasks :
        /\ b_stage[t] = "finished"
        /\ b_result[t] = Some(FALSE)
        /\ ~IsNone(b_qt_error[t])
        /\ b_handler_calls[t] = <<>>
        /\ b_stage[u] = "finished"
        /\ b_result[u] = Some(TRUE)
        /\ b_handler_calls[u] = <<Some(SldNamedLayer)>>

\* C13: the shared redirect policy is last-writer-wins.  Once a task has been
\* constructed the policy of the shared layer is the redirect_policy of the
\* most recently constructed task, and a step that constructs no task (a
\* task handed to the scheduler, issuing its request, resolving) leaves the
\* shared policy alone.
C13_RedirectPolicyLastWriterWins ==
    /\ [](taskCount > 0 => nam_redirect_policy = redirect_policy[taskCount])
    /\ [][taskCount' = taskCount => nam_redirect_policy' = nam_redirect_policy]_vars

\* A task issued its request while the shared policy was another task's, not
\* its own.
C13_Witness ==
    \E t \in Tasks :
        /\ stage[t] \in {"requested", "done"}
        /\ nam_calls[t] # <<>>
        /\ nam_calls[t][Len(nam_calls[t])].call \in {"get", "post"}
        /\ nam_calls[t][Len(nam_calls[t])].policy # redirect_policy[t]
        /\ nam_calls[t][Len(nam_calls[t])].policy = redirect_policy[taskCount]

\* C14: pagination.  Once handle_pagination has handled a payload that has
\* page, total and page_size, the current page is the payload's page, the
\* previous button is enabled iff page > 1, the next button iff page is less
\* than the number of pages, and the number of pages (shown when there are
\* results) is ceil(total / page_size): the least n with n * page_size >= total.
C14_Pagination ==
    (/\ resultsLabel.text # ""
     /\ ~IsNone(layer_list_payload)
     /\ ~IsNone(Val(layer_list_payload).page)
     /\ ~IsNone(Val(layer_list_payload).total)
     /\ ~IsNone(Val(layer_list_payload).page_size)) =>
        LET page == Val(Val(layer_list_payload).page)
            total == Val(Val(layer_list_payload).total)
            page_size == Val(Val(layer_list_payload).page_size)
            pages == CHOOSE n \in 0..total :
                        /\ n * page_size >= total
                        /\ \A m \in 0..total : m * page_size >= total => n <= m
        IN
        /\ current_page = page
        /\ previous_btn = (page > 1)
        /\ next_btn = (page < pages)
        /\ total > 0 =>
                /\ resultsLabel.page = page
                /\ resultsLabel.total_pages = pages
                /\ resultsLabel.total = total

\* The payload page 2, total 25, page_size 10 was handled: 3 pages, both
\* buttons enabled.
C14_Witness ==
    /\ layer_list_payload = Some([page |-> Some(2), total |-> Some(25),
                                  page_size |-> Some(10)])
    /\ current_page = 2
    /\ resultsLabel.total_pages = 3
    /\ previous_btn
    /\ next_btn

\* C15: at most one resolution.  A task whose run has returned is not
\* connected to the shared completion signal, whether the wait ended with an
\* accepted reply or with the timeout, and no later step, the late delivery
\* of its own reply included, changes its reply_content or parsed_reply or
\* makes it emit request_parsed or request_finished.
C15_AtMostOneResolution ==
    [][\A t \in Tasks : pc[t] = "done" =>
          /\ t \notin connected
          /\ t \notin connected'
          /\ reply_content'[t] = reply_content[t]
          /\ parsed_reply'[t] = parsed_reply[t]
          /\ evts'[t] = evts[t]
          /\ result'[t] = result[t]
    ]_vars

\* The task's own reply has just been delivered after its run returned by
\* timeout: nothing was accepted.
C15_Witness ==
    \E t \in Tasks :
        /\ pc[t] = "done"
        /\ timedOut[t]
        /\ last_delivery = Some(RequestIdOf(t))
        /\ IsNone(parsed_reply[t])
        /\ IsNone(reply_content[t])
        /\ evts[t] = <<Finished>>

\* C16: a delivery that a connected task does not accept, because its _reply
\* is None or because the delivered requestId is not that of its _reply, is
\* ignored: reply_content, parsed_reply and _reply are unchanged, no event is
\* emitted and the task stays where it is.
C16_SilentIgnore ==
    [][\A t \in Tasks :
          (/\ last_delivery' # None
           /\ t \in connected
           /\ \/ IsNone(_reply[t])
              \/ Val(_reply[t]).requestId # Val(last_delivery')) =>
                /\ reply_content'[t] = reply_content[t]
                /\ parsed_reply'[t] = parsed_reply[t]
                /\ _reply'[t] = _reply[t]
                /\ evts'[t] = evts[t]
                /\ pc'[t] = pc[t]
                /\ loop'[t] = loop[t]
    ]_vars

\* A reply of another user has just been delivered to a task that is
\* constructed but has issued no request, and to a task that waits for its
\* own reply.
C16_Witness ==
    \E a, b \in Tasks :
        /\ last_delivery = Some(OtherRequestId)
        /\ pc[a] = "created"
        /\ a \in connected
        /\ IsNone(_reply[a])
        /\ IsNone(parsed_reply[a])
        /\ evts[a] = <<>>
        /\ pc[b] = "waiting"
        /\ b \in connected
        /\ ~IsNone(_reply[b])
        /\ IsNone(parsed_reply[b])
        /\ evts[b] = <<>>

\* C17: a task whose run computed the result True has parsed_reply set with
\* qt_error None, reply_content holding a body of the reply it accepted, and
\* _reply released; when it has emitted request_finished its events are
\* request_parsed, request_finished.  So no handler finds a successful task
\* with unset result fields.
C17_SuccessHasFields ==
    \A t \in Tasks : (pc[t] \in {"tried", "done"} /\ result[t] = Some(TRUE)) =>
        /\ ~IsNone(parsed_reply[t])
        /\ IsNone(Val(parsed_reply[t]).qt_error)
        /\ ~IsNone(accepted_kind[t])
        /\ ~IsNone(reply_content[t])
        /\ \E o \in ReplyOutcomes :
                o.kind = Val(accepted_kind[t]) /\ reply_content[t] = Some(o.body)
        /\ IsNone(_reply[t])
        /\ pc[t] = "done" => evts[t] = <<Parsed, Finished>>

\* The handler of a successful task has run and emitted the style.
C17_Witness ==
    \E t \in Tasks :
        /\ pc[t] = "done"
        /\ result[t] = Some(TRUE)
        /\ reply_content[t] = Some(SldNamedLayer)
        /\ hstate[t] = "handled"
        /\ network_fetcher_task = Some(t)
        /\ facade_evts[t] = <<"style_detail_received">>

\* C18: a run issues exactly one request on the shared layer, as its last
\* call: get() iff request_payload is None, post() with the UTF-8 bytes of
\* the payload otherwise.  With an authcfg the auth subsystem is called once
\* with it, before the request is issued, and the request is issued with the
\* credentials of the configuration authcfg names; with authcfg None the
\* auth subsystem is not called and the request is issued as constructed.
\* Before run nothing is called.
C18_OneRequestAfterAuth ==
    \A t \in Tasks :
        /\ stage[t] \in {"none", "constructed", "bound", "scheduled"} =>
                nam_calls[t] = <<>>
        /\ stage[t] \in {"requested", "done"} =>
            LET calls == nam_calls[t]
                last == calls[Len(calls)]
            IN
            /\ calls # <<>>
            /\ Cardinality({i \in DOMAIN calls : calls[i].call \in {"get", "post"}}) = 1
            /\ last.call = (IF IsNone(request_payload[t]) THEN "get" ELSE "post")
            /\ IsNone(request_payload[t]) => last.body = <<>>
            /\ request_payload[t] = Some(<<113, 61, 233>>) =>
                    last.body = <<113, 61, 195, 169>>
            /\ IsNone(authcfg[t]) => (Len(calls) = 1 /\ last.headers = {})
            /\ ~IsNone(authcfg[t]) =>
                    /\ Len(calls) = 2
                    /\ calls[1].call = "updateNetworkRequest"
                    /\ calls[1].cfg = Val(authcfg[t])
                    /\ calls[1].headers = {}
                    /\ ("Authorization" \in last.headers) <=>
                            (Val(authcfg[t]) \in AuthConfigIds)

\* A task with a payload and a configuration id has issued its POST with
\* credentials, another with neither has issued its GET.
C18_Witness ==
    \E t, u \in Tasks :
        /\ stage[t] \in {"requested", "done"}
        /\ ~IsNone(request_payload[t])
        /\ authcfg[t] = Some("cfg1")
        /\ Len(nam_calls[t]) = 2
        /\ nam_calls[t][2].call = "post"
        /\ "Authorization" \in nam_calls[t][2].headers
        /\ stage[u] \in {"requested", "done"}
        /\ IsNone(request_payload[u])
        /\ IsNone(authcfg[u])
        /\ Len(nam_calls[u]) = 1
        /\ nam_calls[u][1].call = "get"

\* C19: the Request Descriptor is immutable once the task exists: no step
\* changes the request object, the payload, the auth reference or the
\* redirect policy of a constructed task, of either variant.
C19_DescriptorImmutable ==
    [][\A t \in Tasks :
          /\ b_stage[t] # "none" =>
                /\ b_request'[t] = b_request[t]
                /\ b_request_payload'[t] = b_request_payload[t]
                /\ b_authcfg'[t] = b_authcfg[t]
          /\ stage[t] # "none" =>
                /\ request'[t] = request[t]
                /\ request_payload'[t] = request_payload[t]
                /\ authcfg'[t] = authcfg[t]
                /\ redirect_policy'[t] = redirect_policy[t]
    ]_vars

\* C20: the handler bound to a task decodes that task's result: when the
\* handler of task t runs, network_fetcher_task is t.
C20_HandlerDecodesOwnTask ==
    [][\A t \in Tasks : (hstate[t] = "queued" /\ hstate'[t] = "handled") =>
          network_fetcher_task = Some(t)
    ]_vars

\* C21: a task never misses its own reply.  When the shared layer delivers
\* the completion of the request the task issued, at any moment after the
\* get()/post() call and before the timeout (before the handle is stored in
\* _reply included), the task accepts it: parsed_reply and reply_content are
\* set in that step and request_parsed is emitted; and a task whose reply was
\* so delivered does not end its wait by the timeout.
C21_NeverMissesOwnReply ==
    [][\A t \in Tasks :
          /\ (/\ OwnDelivered(t)
              /\ pc[t] \in {"issued", "stored", "waiting"}
              /\ ~timedOut[t]) =>
                    /\ ~IsNone(parsed_reply'[t])
                    /\ ~IsNone(reply_content'[t])
                    /\ evts'[t] = Append(evts[t], Parsed)
          /\ (/\ pc[t] = "waiting"
              /\ RequestIdOf(t) \notin inflight
              /\ ~timedOut[t]) => ~timedOut'[t]
    ]_vars

\* No search is in flight: get_layers has been answered and every slot the
\* answer calls has returned.
NoSearchInFlight == IsNone(search_page) /\ slot_queue = <<>>

\* C22: search_geonode disables the search, next and previous buttons while
\* its search is in flight, and every search re-enables the search button:
\* once the task of the search has resolved (success, HTTP error, transport
\* error or timeout) and the slots called for it have returned, the search
\* button is enabled.
C22_SearchButtonReenabled ==
    /\ ~IsNone(search_page) => (~search_btn /\ ~next_btn /\ ~previous_btn)
    /\ NoSearchInFlight => search_btn

\* C23: current_page is at least 1 and, once no search is in flight, it is
\* the page of the successful result shown last, whatever searches failed
\* since.
C23_FailedSearchKeepsPage ==
    /\ current_page >= 1
    /\ (NoSearchInFlight /\ ~IsNone(displayed_page)) =>
            current_page = Val(displayed_page)
====
